---- MODULE Spec2Model ----
(***************************************************************************)
(* Model of the Redfish OpenAPI tooling:                                   *)
(*   scripts/merge-redfish-openapi.py   (name normalizer, reference        *)
(*                                       rewriter, schema merger)          *)
(*   openapi/infra/add-basic-auth.py    (authentication annotation step)   *)
(*   openapi/infra/metadata-generate.py (namespace discoverer)             *)
(*                                                                         *)
(* Python strings that the code inspects character by character (schema    *)
(* identifiers, $ref values) are sequences of one-character strings.       *)
(* Python dicts keep insertion order, so a dict is a sequence of           *)
(* <<key, value>> pairs with distinct keys.                                *)
(***************************************************************************)
EXTENDS Integers, Sequences, FiniteSets, TLC

VARIABLES
    pc,            \* position of the running script
    schema_name,   \* argument of remove_version_from_schema_name (normalizer run)
    clean_name,    \* its result
    base_file,     \* openapi/dmtf/openapi.yaml: [exists, doc]
    fragments,     \* file id -> parsed content of openapi/dmtf/<file>.yaml
    yaml_files,    \* result of glob.glob: the file ids in listing order
    main_spec,     \* the document being accumulated by merge_openapi_files
    file_i,        \* index into yaml_files of the fragment being processed
    schema_i,      \* index of the next schema entry of that fragment
    merged_file,   \* openapi/merged/redfish-openapi.yaml: [exists, doc]
    runs,          \* number of completed add_basic_auth_to_existing_spec runs
    dmtf_dir,      \* file name -> body of the files in the dmtf directory
    dir_i,         \* index into the sorted directory listing
    discovered     \* the DiscoveryIndex being built by discover_schemas

vars == <<pc, schema_name, clean_name, base_file, fragments, yaml_files, main_spec,
          file_i, schema_i, merged_file, runs, dmtf_dir, dir_i, discovered>>

mergeVars == <<base_file, fragments, yaml_files, main_spec, file_i, schema_i,
               merged_file, runs>>
normVars == <<schema_name, clean_name>>
discVars == <<dmtf_dir, dir_i, discovered>>

-----------------------------------------------------------------------------
(* Strings as character sequences                                          *)

Digits == {"0", "1", "2", "3", "4", "5", "6", "7", "8", "9"}

IsDigit(c) == c \in Digits

\* s[i..] starts with the character sequence p
StartsWithAt(s, i, p) ==
    /\ i + Len(p) - 1 <= Len(s)
    /\ \A k \in 1..Len(p) : s[i + k - 1] = p[k]

StartsWith(s, p) == StartsWithAt(s, 1, p)

\* Python's `p in s`
Contains(s, p) == \E i \in 1..(Len(s) + 1) : StartsWithAt(s, i, p)

\* Python's s.split(p)[-1]: what follows the last occurrence of p (s itself if none)
LastSegment(s, p) ==
    LET occ == {i \in 1..Len(s) : StartsWithAt(s, i, p)}
    IN  IF occ = {} THEN s
        ELSE LET last == CHOOSE i \in occ : \A j \in occ : j <= i
             IN  SubSeq(s, last + Len(p), Len(s))

\* first index >= i of s that holds no digit (Len(s) + 1 if the digits run to the end)
RECURSIVE DigitsEnd(_, _)
DigitsEnd(s, i) ==
    IF i <= Len(s) /\ IsDigit(s[i]) THEN DigitsEnd(s, i + 1) ELSE i

\* The regular expression _v\d+_\d+_\d+_ anchored at index i: the index just after
\* the match, or 0 when there is no match at i.  \d+ is greedy, and as a digit run is
\* always followed by a non-digit in the pattern, no backtracking can find another match.
VersionMatchEnd(s, i) ==
    IF ~StartsWithAt(s, i, <<"_", "v">>) THEN 0
    ELSE LET a == DigitsEnd(s, i + 2)
         IN IF a = i + 2 \/ a > Len(s) \/ s[a] # "_" THEN 0
            ELSE LET b == DigitsEnd(s, a + 1)
                 IN IF b = a + 1 \/ b > Len(s) \/ s[b] # "_" THEN 0
                    ELSE LET c == DigitsEnd(s, b + 1)
                         IN IF c = b + 1 \/ c > Len(s) \/ s[c] # "_" THEN 0
                            ELSE c + 1

\* re.sub(version_pattern, '_', s) from index i on: leftmost, non-overlapping matches
RECURSIVE ReSubFrom(_, _)
ReSubFrom(s, i) ==
    IF i > Len(s) THEN <<>>
    ELSE LET e == VersionMatchEnd(s, i)
         IN IF e # 0 THEN <<"_">> \o ReSubFrom(s, e)
            ELSE <<s[i]>> \o ReSubFrom(s, i + 1)

remove_version_from_schema_name(name) == ReSubFrom(name, 1)

\* the pattern occurs somewhere in s
HasVersionToken(s) == \E i \in 1..Len(s) : VersionMatchEnd(s, i) # 0

-----------------------------------------------------------------------------
(* Normalizer run: one call of remove_version_from_schema_name             *)

MaxTokens == 3

IdTokens == { <<"A">>, <<"_">>, <<"1">>, <<"_", "v">>, <<"_", "0", "_", "0", "_">>,
              <<"_", "v", "1", "2", "_", "0", "_", "3", "_">>,
              <<"v", "1", "_", "0", "_", "0", "_">> }

RECURSIVE Concat(_)
Concat(ts) == IF ts = <<>> THEN <<>> ELSE Head(ts) \o Concat(Tail(ts))

Identifiers ==
    { Concat(ts) : ts \in UNION { [1..n -> IdTokens] : n \in 0..MaxTokens } }

Idle == <<>>

InitNorm ==
    /\ pc = "norm_call"
    /\ schema_name \in Identifiers
    /\ clean_name = <<>>
    /\ base_file = Idle /\ fragments = Idle /\ yaml_files = Idle /\ main_spec = Idle
    /\ file_i = 0 /\ schema_i = 0 /\ merged_file = Idle /\ runs = 0
    /\ dmtf_dir = Idle /\ dir_i = 0 /\ discovered = Idle

Normalize ==
    /\ pc = "norm_call"
    /\ clean_name' = remove_version_from_schema_name(schema_name)
    /\ pc' = "norm_done"
    /\ UNCHANGED <<schema_name, mergeVars, discVars>>

NextNorm == Normalize

SpecNorm == InitNorm /\ [][NextNorm]_vars

\* C7: the result of remove_version_from_schema_name holds no version token, so that
\* normalizing it again changes nothing, and an identifier without a version token is
\* returned unchanged.
C7_NoTokenRemains ==
    pc = "norm_done" =>
        /\ ~HasVersionToken(clean_name)
        /\ remove_version_from_schema_name(clean_name) = clean_name
        /\ (~HasVersionToken(schema_name) => clean_name = schema_name)

-----------------------------------------------------------------------------
(* Ordered dicts: sequences of <<key, value>> pairs with distinct keys     *)

Keys(d) == {d[i][1] : i \in 1..Len(d)}

Has(d, k) == k \in Keys(d)

Get(d, k) == d[CHOOSE i \in 1..Len(d) : d[i][1] = k][2]

\* d[k] = v: an existing key keeps its position, a new key goes last
Put(d, k, v) ==
    IF Has(d, k) THEN [i \in 1..Len(d) |-> IF d[i][1] = k THEN <<k, v>> ELSE d[i]]
    ELSE Append(d, <<k, v>>)

\* del d[k]
Del(d, k) == SelectSeq(d, LAMBDA e : e[1] # k)

\* d.update(e)
RECURSIVE Update(_, _)
Update(d, e) == IF e = <<>> THEN d ELSE Update(Put(d, Head(e)[1], Head(e)[2]), Tail(e))

-----------------------------------------------------------------------------
(* Document trees as yaml.safe_load builds them: maps, lists, strings      *)

MapN(kv) == [tag |-> "map", kv |-> kv, el |-> <<>>, val |-> <<>>]
ListN(el) == [tag |-> "list", kv |-> <<>>, el |-> el, val |-> <<>>]
StrN(val) == [tag |-> "str", kv |-> <<>>, el |-> <<>>, val |-> val]

SchemasPointer == <<"#", "/", "c", "o", "m", "p", "o", "n", "e", "n", "t", "s", "/", "s", "c", "h", "e", "m", "a", "s", "/">>
YamlSchemasPointer == <<".", "y", "a", "m", "l">> \o SchemasPointer
YamlHash == <<".", "y", "a", "m", "l", "#">>

\* lines 19-33: the new value of a string stored under '$ref'
RewriteRef(value) ==
    IF Contains(value, YamlSchemasPointer)
    THEN SchemasPointer \o remove_version_from_schema_name(LastSegment(value, SchemasPointer))
    ELSE IF StartsWith(value, SchemasPointer)
    THEN SchemasPointer \o remove_version_from_schema_name(LastSegment(value, SchemasPointer))
    ELSE value

RECURSIVE convert_file_refs_to_internal(_)
convert_file_refs_to_internal(obj) ==
    IF obj.tag = "map"
    THEN MapN([i \in 1..Len(obj.kv) |->
                 IF obj.kv[i][1] = "$ref" /\ obj.kv[i][2].tag = "str"
                 THEN <<"$ref", StrN(RewriteRef(obj.kv[i][2].val))>>
                 ELSE <<obj.kv[i][1], convert_file_refs_to_internal(obj.kv[i][2])>>])
    ELSE IF obj.tag = "list"
    THEN ListN([i \in 1..Len(obj.el) |-> convert_file_refs_to_internal(obj.el[i])])
    ELSE obj

\* the strings stored under a '$ref' key anywhere in a tree
RECURSIVE RefValues(_)
RefValues(obj) ==
    IF obj.tag = "map"
    THEN UNION { IF obj.kv[i][1] = "$ref" /\ obj.kv[i][2].tag = "str"
                 THEN {obj.kv[i][2].val}
                 ELSE RefValues(obj.kv[i][2]) : i \in 1..Len(obj.kv) }
    ELSE IF obj.tag = "list"
    THEN UNION { RefValues(obj.el[i]) : i \in 1..Len(obj.el) }
    ELSE {}

-----------------------------------------------------------------------------
(* Documents: the top-level sections the scripts read or write             *)

Doc(hc, hs, schemas, hp, paths) ==
    [has_components |-> hc, has_schemas |-> hs, schemas |-> schemas,
     has_paths |-> hp, paths |-> paths,
     has_security_schemes |-> FALSE, security_schemes |-> <<>>,
     has_security |-> FALSE, security |-> <<>>,
     x_basic_auth |-> "absent"]

\* lines 49-60: the basic structure created when there is no main file
Skeleton == Doc(TRUE, TRUE, <<>>, TRUE, <<>>)

\* lines 46-69: main_spec after loading, with components.schemas ensured
LoadedMain(file) ==
    IF ~file.exists THEN Skeleton
    ELSE [file.doc EXCEPT !.has_components = TRUE, !.has_schemas = TRUE]

\* a schema entry of a fragment; str_key is FALSE for a key that is no string
Entry(name, def) == [name |-> name, def |-> def, str_key |-> TRUE]
NonStringKeyEntry(def) == [name |-> <<>>, def |-> def, str_key |-> FALSE]

\* lines 93-110 for one (schema_name, schema_def)
\* a faulty variant: on a conflict the existing entry always stays (first definition wins)
FoldEntryKeepExisting(doc, e) ==
    LET clean_schema_name == remove_version_from_schema_name(e.name)
    IN  IF Has(doc.schemas, clean_schema_name) THEN doc
        ELSE [doc EXCEPT !.schemas = Put(doc.schemas, clean_schema_name, e.def)]

\* a faulty variant: on a conflict the new definition always replaces the existing one
FoldEntryAlwaysReplace(doc, e) ==
    LET clean_schema_name == remove_version_from_schema_name(e.name)
    IN  [doc EXCEPT !.schemas = Put(doc.schemas, clean_schema_name, e.def)]

FoldEntry(doc, e) ==
    LET clean_schema_name == remove_version_from_schema_name(e.name)
        has_version == Contains(e.name, <<"_", "v">>) /\ clean_schema_name # e.name
    IN  IF Has(doc.schemas, clean_schema_name)
        THEN IF has_version
             THEN [doc EXCEPT !.schemas = Put(doc.schemas, clean_schema_name, e.def)]
             ELSE doc
        ELSE [doc EXCEPT !.schemas = Put(doc.schemas, clean_schema_name, e.def)]

\* lines 113-117; a 'paths' section that is no mapping makes update raise after
\* line 115 has created main_spec['paths']
MergePathsOf(doc, frag) ==
    IF frag.paths_kind = "absent" THEN doc
    ELSE LET d == IF doc.has_paths THEN doc
                  ELSE [doc EXCEPT !.has_paths = TRUE, !.paths = <<>>]
         IN  IF frag.paths_kind = "map"
             THEN [d EXCEPT !.paths = Update(d.paths, frag.paths)]
             ELSE d

\* lines 123-125 over the whole document
ConvertDoc(doc) ==
    [doc EXCEPT
       !.schemas = [i \in 1..Len(doc.schemas) |->
                      <<doc.schemas[i][1], convert_file_refs_to_internal(doc.schemas[i][2])>>],
       !.paths = [i \in 1..Len(doc.paths) |->
                    <<doc.paths[i][1], convert_file_refs_to_internal(doc.paths[i][2])>>],
       !.security = [i \in 1..Len(doc.security) |->
                       convert_file_refs_to_internal(doc.security[i])]]

\* lines 127-131
RemoveDuplicateRoot(doc) ==
    IF doc.has_paths /\ Has(doc.paths, "/redfish/v1/") /\ Has(doc.paths, "/redfish/v1")
    THEN [doc EXCEPT !.paths = Del(doc.paths, "/redfish/v1/")]
    ELSE doc

\* lines 91-110 from entry i on: the fold stops at a key that makes re.sub raise
RECURSIVE FoldSchemasFrom(_, _, _)
FoldSchemasFrom(doc, entries, i) ==
    IF i > Len(entries) THEN [doc |-> doc, raised |-> FALSE]
    ELSE IF ~entries[i].str_key THEN [doc |-> doc, raised |-> TRUE]
    ELSE FoldSchemasFrom(FoldEntry(doc, entries[i]), entries, i + 1)

\* lines 81-121: the body of the loop for one fragment
ProcessFragment(doc, frag) ==
    IF ~frag.ok THEN doc
    ELSE LET r == IF frag.has_schemas THEN FoldSchemasFrom(doc, frag.schemas, 1)
                  ELSE [doc |-> doc, raised |-> FALSE]
         IN  IF r.raised THEN r.doc ELSE MergePathsOf(r.doc, frag)

\* lines 80-121 over the files of `order` from index i on
RECURSIVE MergeLoop(_, _, _, _)
MergeLoop(doc, frags, order, i) ==
    IF i > Len(order) THEN doc
    ELSE MergeLoop(ProcessFragment(doc, frags[order[i]]), frags, order, i + 1)

\* lines 42-139: the document written for a given listing order
MergeResult(file, frags, order) ==
    RemoveDuplicateRoot(ConvertDoc(MergeLoop(LoadedMain(file), frags, order, 1)))

-----------------------------------------------------------------------------
(* add_basic_auth_to_existing_spec                                          *)

\* {} and {'BasicAuth': []} as security requirements
EmptyAuth == MapN(<<>>)
BasicAuthReq == MapN(<< <<"BasicAuth", ListN(<<>>)>> >>)

\* method.lower() on the method keys that occur
Lower(method) ==
    CASE method = "GET" -> "get"
      [] method = "Post" -> "post"
      [] OTHER -> method

public_endpoints == {"/redfish/v1/", "/redfish/v1/$metadata"}

\* line 47
\* a faulty variant: BasicAuth is never seen in the global security list
HasBasicAuthNever(security) == FALSE

HasBasicAuth(security) ==
    \E i \in 1..Len(security) :
        security[i].tag = "map" /\ Has(security[i].kv, "BasicAuth")

\* line 48
HasEmptyAuth(security) == \E i \in 1..Len(security) : security[i] = EmptyAuth

\* lines 43-56
GlobalSecurity(doc) ==
    LET security == IF doc.has_security THEN doc.security ELSE <<>>
        with_basic == IF HasBasicAuth(security) THEN security
                      ELSE Append(security, BasicAuthReq)
    IN  IF HasEmptyAuth(security) THEN with_basic ELSE Append(with_basic, EmptyAuth)

\* lines 65-68 and 75-78: every operation of path_spec whose method is in `methods`
\* and that has no 'security' key gets security = [req]
SecureOperations(path_spec, methods, req) ==
    MapN([i \in 1..Len(path_spec.kv) |->
            LET method == path_spec.kv[i][1]
                method_spec == path_spec.kv[i][2]
            IN  IF Lower(method) \in methods /\ ~Has(method_spec.kv, "security")
                THEN <<method, MapN(Append(method_spec.kv, <<"security", ListN(<<req>>)>>))>>
                ELSE path_spec.kv[i]])

\* lines 59-79
EndpointSecurity(paths) ==
    [i \in 1..Len(paths) |->
        IF paths[i][1] \in public_endpoints
        THEN <<paths[i][1],
               SecureOperations(paths[i][2], {"get", "head", "options"}, EmptyAuth)>>
        ELSE <<paths[i][1],
               SecureOperations(paths[i][2], {"get", "post", "put", "patch", "delete"},
                                BasicAuthReq)>>]

\* lines 25-93
add_basic_auth_to_existing_spec(doc) ==
    [doc EXCEPT
       !.has_components = TRUE,
       !.has_security_schemes = TRUE,
       !.security_schemes =
           LET schemes == IF doc.has_security_schemes THEN doc.security_schemes ELSE <<>>
           IN  IF Has(schemes, "BasicAuth") THEN schemes
               ELSE Put(schemes, "BasicAuth", "http basic"),
       !.has_security = TRUE,
       !.security = GlobalSecurity(doc),
       !.paths = IF doc.has_paths THEN EndpointSecurity(doc.paths) ELSE doc.paths,
       !.x_basic_auth = IF doc.x_basic_auth = "absent" THEN "service-root-public"
                        ELSE doc.x_basic_auth]

-----------------------------------------------------------------------------
(* Inputs of the merge: schema identifiers, pointers, definitions, files   *)

MaxFiles == 2
MaxRuns == 2

N_X == <<"X">>
N_X_v == <<"X", "_", "v", "1", "_", "0", "_", "0">>
N_X_Y == <<"X", "_", "Y">>
N_X_v_Y == <<"X", "_", "v", "1", "_", "0", "_", "0", "_", "Y">>
N_X_vv_Y == <<"X", "_", "v", "1", "_", "0", "_", "0", "_", "v", "1", "_", "0", "_", "0", "_", "Y">>

\* Resource.yaml#/components/schemas/X_v1_0_0_Y
RefExternal == <<"R">> \o YamlSchemasPointer \o N_X_v_Y
\* #/components/schemas/X_v1_0_0_Y
RefInternal == SchemasPointer \o N_X_v_Y
\* Resource.yaml#/components/parameters/P
RefParameter == <<"R">> \o YamlHash \o
    <<"/", "c", "o", "m", "p", "o", "n", "e", "n", "t", "s", "/", "p", "a", "r", "a", "m", "e", "t", "e", "r", "s", "/", "P">>

DefPlain == MapN(<< <<"type", StrN(<<"o", "b", "j", "e", "c", "t">>)>> >>)
DefExternal == MapN(<< <<"$ref", StrN(RefExternal)>> >>)
DefNested == MapN(<< <<"allOf", ListN(<< MapN(<< <<"$ref", StrN(RefInternal)>> >>) >>)>> >>)
DefParameter == MapN(<< <<"$ref", StrN(RefParameter)>> >>)

OpPlain == MapN(<< <<"responses", DefExternal>> >>)
OpOther == MapN(<< <<"responses", DefNested>> >>)
OpSecured == MapN(<< <<"security", ListN(<<BasicAuthReq>>)>> >>)

ItemGet == MapN(<< <<"get", OpPlain>> >>)
ItemGetPost == MapN(<< <<"GET", OpOther>>, <<"post", OpPlain>>, <<"head", OpPlain>> >>)
ItemSecured == MapN(<< <<"get", OpSecured>>, <<"Post", OpOther>> >>)

Fragment(ok, hs, schemas, pk, paths) ==
    [ok |-> ok, has_schemas |-> hs, schemas |-> schemas, paths_kind |-> pk, paths |-> paths]

FragmentPool == {
    \* unversioned definitions and the service root with a trailing slash
    Fragment(TRUE, TRUE, << Entry(N_X, DefPlain), Entry(N_X_Y, DefPlain) >>,
             "map", << <<"/redfish/v1/", ItemGet>> >>),
    \* versioned definitions and the service root without a trailing slash
    Fragment(TRUE, TRUE, << Entry(N_X_v, DefExternal), Entry(N_X_v_Y, DefExternal) >>,
             "map", << <<"/redfish/v1", ItemGetPost>> >>),
    \* two adjacent version tokens, and a 'paths' section that is no mapping
    Fragment(TRUE, TRUE, << Entry(N_X_vv_Y, DefNested) >>, "bad", <<>>),
    \* a file that yaml cannot parse
    Fragment(FALSE, FALSE, <<>>, "absent", <<>>),
    \* no components section, paths only
    Fragment(TRUE, FALSE, <<>>,
             "map", << <<"/redfish/v1/Systems", ItemSecured>>, <<"/redfish/v1", ItemGet>> >>),
    \* a schema key that is no string, between two unversioned definitions
    Fragment(TRUE, TRUE,
             << Entry(N_X_Y, DefParameter), NonStringKeyEntry(DefPlain), Entry(N_X, DefParameter) >>,
             "absent", <<>>),
    \* neither section
    Fragment(TRUE, FALSE, <<>>, "absent", <<>>) }

BaseFilePool == {
    [exists |-> FALSE, doc |-> Skeleton],
    [exists |-> TRUE, doc |-> Doc(FALSE, FALSE, <<>>, FALSE, <<>>)],
    [exists |-> TRUE,
     doc |-> Doc(TRUE, TRUE, << <<N_X_v_Y, DefPlain>> >>,
                 TRUE, << <<"/redfish/v1/$metadata", ItemGet>> >>)] }

Files == 1..MaxFiles

\* every order in which the directory listing can return the files
Listings == { o \in [1..MaxFiles -> Files] : \A i, j \in 1..MaxFiles : o[i] = o[j] => i = j }

-----------------------------------------------------------------------------
(* merge_openapi_files, then add_basic_auth_to_existing_spec                *)

InitMerge ==
    /\ pc = "start"
    /\ base_file \in BaseFilePool
    /\ fragments \in [Files -> FragmentPool]
    /\ yaml_files = <<>>
    /\ main_spec = Skeleton
    /\ file_i = 0 /\ schema_i = 0
    /\ merged_file = [exists |-> FALSE, doc |-> Skeleton]
    /\ runs = 0
    /\ schema_name = <<>> /\ clean_name = <<>>
    /\ dmtf_dir = Idle /\ dir_i = 0 /\ discovered = Idle

CurrentFragment == fragments[yaml_files[file_i]]

\* lines 43-69
LoadMain ==
    /\ pc = "start"
    /\ main_spec' = LoadedMain(base_file)
    /\ pc' = "glob"
    /\ UNCHANGED <<base_file, fragments, yaml_files, file_i, schema_i, merged_file, runs,
                   normVars, discVars>>

\* lines 72-73: glob.glob returns the files in the order of the directory listing
Glob ==
    /\ pc = "glob"
    /\ yaml_files' \in Listings
    /\ file_i' = 1
    /\ pc' = "loop"
    /\ UNCHANGED <<base_file, fragments, main_spec, schema_i, merged_file, runs,
                   normVars, discVars>>

\* lines 80-88: the fragment parses
OpenFragment ==
    /\ pc = "loop" /\ file_i <= Len(yaml_files)
    /\ CurrentFragment.ok
    /\ IF CurrentFragment.has_schemas /\ Len(CurrentFragment.schemas) > 0
       THEN pc' = "schemas" /\ schema_i' = 1
       ELSE pc' = "paths" /\ schema_i' = 0
    /\ UNCHANGED <<base_file, fragments, yaml_files, main_spec, file_i, merged_file, runs,
                   normVars, discVars>>

\* lines 82-83 raise, lines 119-121 continue with the next file
OpenFragmentFails ==
    /\ pc = "loop" /\ file_i <= Len(yaml_files)
    /\ ~CurrentFragment.ok
    /\ file_i' = file_i + 1
    /\ UNCHANGED <<pc, base_file, fragments, yaml_files, main_spec, schema_i, merged_file,
                   runs, normVars, discVars>>

\* lines 91-110: one iteration of the loop over the fragment's schemas
FoldSchema ==
    /\ pc = "schemas"
    /\ CurrentFragment.schemas[schema_i].str_key
    /\ main_spec' = FoldEntry(main_spec, CurrentFragment.schemas[schema_i])
    /\ IF schema_i < Len(CurrentFragment.schemas)
       THEN pc' = "schemas" /\ schema_i' = schema_i + 1
       ELSE pc' = "paths" /\ schema_i' = 0
    /\ UNCHANGED <<base_file, fragments, yaml_files, file_i, merged_file, runs,
                   normVars, discVars>>

\* line 93 raises on a key that is no string, lines 119-121 continue with the next file
FoldSchemaRaises ==
    /\ pc = "schemas"
    /\ ~CurrentFragment.schemas[schema_i].str_key
    /\ pc' = "loop" /\ file_i' = file_i + 1 /\ schema_i' = 0
    /\ UNCHANGED <<base_file, fragments, yaml_files, main_spec, merged_file, runs,
                   normVars, discVars>>

\* lines 113-117, and lines 119-121 when update raises
MergePaths ==
    /\ pc = "paths"
    /\ main_spec' = MergePathsOf(main_spec, CurrentFragment)
    /\ pc' = "loop" /\ file_i' = file_i + 1
    /\ UNCHANGED <<base_file, fragments, yaml_files, schema_i, merged_file, runs,
                   normVars, discVars>>

\* lines 123-125
ConvertRefs ==
    /\ pc = "loop" /\ file_i > Len(yaml_files)
    /\ main_spec' = ConvertDoc(main_spec)
    /\ pc' = "collapse"
    /\ UNCHANGED <<base_file, fragments, yaml_files, file_i, schema_i, merged_file, runs,
                   normVars, discVars>>

\* lines 127-131
CollapseRoot ==
    /\ pc = "collapse"
    /\ main_spec' = RemoveDuplicateRoot(main_spec)
    /\ pc' = "write"
    /\ UNCHANGED <<base_file, fragments, yaml_files, file_i, schema_i, merged_file, runs,
                   normVars, discVars>>

\* lines 133-139
WriteOutput ==
    /\ pc = "write"
    /\ merged_file' = [exists |-> TRUE, doc |-> main_spec]
    /\ pc' = "written"
    /\ UNCHANGED <<base_file, fragments, yaml_files, main_spec, file_i, schema_i, runs,
                   normVars, discVars>>

\* add-basic-auth.py lines 8-100: one run of the annotation step on the merged file
Annotate ==
    /\ pc = "written" /\ runs < MaxRuns
    /\ merged_file.exists
    /\ merged_file' = [exists |-> TRUE, doc |-> add_basic_auth_to_existing_spec(merged_file.doc)]
    /\ runs' = runs + 1
    /\ UNCHANGED <<pc, base_file, fragments, yaml_files, main_spec, file_i, schema_i,
                   normVars, discVars>>

NextMerge ==
    \/ LoadMain \/ Glob \/ OpenFragment \/ OpenFragmentFails \/ FoldSchema
    \/ FoldSchemaRaises \/ MergePaths \/ ConvertRefs \/ CollapseRoot \/ WriteOutput
    \/ Annotate

SpecMerge == InitMerge /\ [][NextMerge]_vars

-----------------------------------------------------------------------------
(* Properties of the merge                                                 *)

Merged == merged_file.doc

MergeWritten == pc = "written" /\ runs = 0

\* the fragment is folded in completely: it parses and nothing raises
Sound(frag) ==
    /\ frag.ok
    /\ frag.paths_kind # "bad"
    /\ frag.has_schemas => \A i \in 1..Len(frag.schemas) : frag.schemas[i].str_key

\* a sound fragment that defines `name`
Defines(frag, name) ==
    /\ Sound(frag) /\ frag.has_schemas
    /\ \E i \in 1..Len(frag.schemas) : frag.schemas[i].name = name

DefinitionOf(frag, name) ==
    frag.schemas[CHOOSE i \in 1..Len(frag.schemas) : frag.schemas[i].name = name].def

\* the state machine and the function MergeResult agree on what is written
MergeIsMergeResult ==
    MergeWritten => Merged = MergeResult(base_file, fragments, yaml_files)

\* the schema entry that the next FoldSchema step folds in
CurrentEntry == CurrentFragment.schemas[schema_i]

FoldsVersioned ==
    /\ pc = "schemas" /\ CurrentEntry.str_key
    /\ remove_version_from_schema_name(CurrentEntry.name) # CurrentEntry.name

FoldsUnversioned ==
    /\ pc = "schemas" /\ CurrentEntry.str_key
    /\ remove_version_from_schema_name(CurrentEntry.name) = CurrentEntry.name

AllRefValues(doc) ==
    UNION ( { RefValues(doc.schemas[i][2]) : i \in 1..Len(doc.schemas) }
            \cup { RefValues(doc.paths[i][2]) : i \in 1..Len(doc.paths) } )

\* C2: no value stored under a $ref key of the written document, in schemas, paths
\* or any nested map or list, contains the substring .yaml#
C2_NoExternalPointers ==
    MergeWritten => \A value \in AllRefValues(Merged) : ~Contains(value, YamlHash)

\* C3: after the main file is loaded and after every fragment folded in, no two
\* distinct keys of components.schemas have the same canonical form
C3_NoDuplicateCanonical ==
    pc \in {"glob", "loop", "schemas", "paths", "collapse", "write", "written"} =>
        \A k1, k2 \in Keys(main_spec.schemas) :
            remove_version_from_schema_name(k1) = remove_version_from_schema_name(k2)
                => k1 = k2

\* the files in lexical order of their names: the file ids are numbered in that order
SortedFiles == [i \in 1..MaxFiles |-> i]

\* C5: the fragments are folded in lexical order of their names (file ids are numbered
\* in that order), and the written document is the same for every order in which the
\* directory listing can return the same files
C5_ListingOrderIrrelevant ==
    MergeWritten =>
        /\ Merged = MergeResult(base_file, fragments, SortedFiles)
        /\ \A o \in Listings : Merged = MergeResult(base_file, fragments, o)

Failing(frag) == ~Sound(frag)

\* C9: a fragment that fails to parse or raises while being folded in contributes
\* nothing: the written document is the one the merge writes without those fragments
C9_FailingFragmentSkippedWhole ==
    MergeWritten =>
        Merged = MergeResult(base_file, fragments,
                             SelectSeq(yaml_files, LAMBDA f : ~Failing(fragments[f])))

\* the service root, with and without the trailing slash
ServiceRoots == {"/redfish/v1/", "/redfish/v1"}

GetOperations(path_spec) ==
    { i \in 1..Len(path_spec.kv) : Lower(path_spec.kv[i][1]) = "get" }

\* C10: after the merge and the annotation step, the GET operation of a service-root
\* path that had no security entry in the merged document is public: security = [{}]
C10_ServiceRootPublic ==
    (pc = "written" /\ runs >= 1) =>
        \A root \in ServiceRoots :
            (main_spec.has_paths /\ Has(main_spec.paths, root)) =>
                \A i \in GetOperations(Get(main_spec.paths, root)) :
                    ~Has(Get(main_spec.paths, root).kv[i][2].kv, "security")
                        => Get(Get(Merged.paths, root).kv[i][2].kv, "security")
                               = ListN(<<EmptyAuth>>)

-----------------------------------------------------------------------------
(* The annotation step on its own: any merged document as input           *)

OtherReq == MapN(<< <<"OAuth", ListN(<<>>)>> >>)

ComponentsPool == {
    [hc |-> FALSE, hss |-> FALSE, ss |-> <<>>],
    [hc |-> TRUE, hss |-> FALSE, ss |-> <<>>],
    [hc |-> TRUE, hss |-> TRUE, ss |-> << <<"OAuth", "oauth2">> >>],
    [hc |-> TRUE, hss |-> TRUE, ss |-> << <<"BasicAuth", "custom">>, <<"OAuth", "oauth2">> >>] }

SecurityPool == {
    [hs |-> FALSE, sec |-> <<>>],
    [hs |-> TRUE, sec |-> <<>>],
    [hs |-> TRUE, sec |-> <<BasicAuthReq>>],
    [hs |-> TRUE, sec |-> <<EmptyAuth>>],
    [hs |-> TRUE, sec |-> <<OtherReq, StrN(<<"x">>)>>],
    [hs |-> TRUE, sec |-> <<EmptyAuth, MapN(<< <<"OAuth", ListN(<<>>)>>, <<"BasicAuth", ListN(<<>>)>> >>)>>] }

ItemPool == {ItemGet, ItemGetPost, ItemSecured}

\* a path with one of the items, or no such path
PathChoices(path) == {<<>>} \cup { << <<path, item>> >> : item \in ItemPool }

PathsPool ==
    { a \o b \o c : a \in PathChoices("/redfish/v1/"), b \in PathChoices("/redfish/v1"),
                    c \in PathChoices("/redfish/v1/$metadata") }

AuthInputs ==
    { [has_components |-> c.hc, has_schemas |-> c.hc, schemas |-> <<>>,
       has_paths |-> hp, paths |-> IF hp THEN paths ELSE <<>>,
       has_security_schemes |-> c.hss, security_schemes |-> c.ss,
       has_security |-> sec.hs, security |-> sec.sec,
       x_basic_auth |-> xba] :
      c \in ComponentsPool, sec \in SecurityPool, hp \in BOOLEAN, paths \in PathsPool,
      xba \in {"absent", "custom"} }

InitAuth ==
    /\ pc = "written"
    /\ merged_file \in { [exists |-> TRUE, doc |-> d] : d \in AuthInputs }
    /\ runs = 0
    /\ base_file = [exists |-> FALSE, doc |-> Skeleton]
    /\ fragments = <<>> /\ yaml_files = <<>> /\ main_spec = Skeleton
    /\ file_i = 0 /\ schema_i = 0
    /\ schema_name = <<>> /\ clean_name = <<>>
    /\ dmtf_dir = Idle /\ dir_i = 0 /\ discovered = Idle

NextAuth == Annotate

SpecAuth == InitAuth /\ [][NextAuth]_vars

\* C4: a run of the annotation step on a document that it has already annotated
\* leaves the document as it is
C4_AnnotationIdempotent ==
    [][ (pc = "written" /\ runs >= 1) => merged_file' = merged_file ]_vars

\* the step has run twice on a document in which it had to add the BasicAuth scheme,
\* the metadata block, the public override and a BasicAuth requirement
C4_Witness ==
    /\ runs = 2
    /\ Get(Merged.security_schemes, "BasicAuth") = "http basic"
    /\ Merged.x_basic_auth = "service-root-public"
    /\ HasBasicAuth(Merged.security) /\ HasEmptyAuth(Merged.security)
    /\ Merged.has_paths
    /\ Has(Merged.paths, "/redfish/v1/") /\ Has(Merged.paths, "/redfish/v1")
    /\ Get(Merged.paths, "/redfish/v1/") = SecureOperations(ItemGet, {"get"}, EmptyAuth)
    /\ Get(Merged.paths, "/redfish/v1")
         = SecureOperations(ItemGetPost, {"get", "post"}, BasicAuthReq)

-----------------------------------------------------------------------------
(* metadata-generate.py: discover_schemas                                   *)

\* the characters of the file names and version strings, in code point order
CodePointOrder == <<"-", ".", "0", "1", "2", "3", "E", "R", "X", "Y", "_", "a", "d", "e",
                    "f", "h", "i", "l", "m", "n", "o", "s", "t", "v", "x", "y">>

Ord(c) == CHOOSE i \in 1..Len(CodePointOrder) : CodePointOrder[i] = c

\* \w on these characters
IsWord(c) == c \notin {"-", "."}

\* Python's s < t on strings
RECURSIVE StrLess(_, _)
StrLess(s, t) ==
    IF t = <<>> THEN FALSE
    ELSE IF s = <<>> THEN TRUE
    ELSE IF Head(s) = Head(t) THEN StrLess(Tail(s), Tail(t))
    ELSE Ord(Head(s)) < Ord(Head(t))

\* sorted(...) of a set of strings
RECURSIVE SortedStrings(_)
SortedStrings(S) ==
    IF S = {} THEN <<>>
    ELSE LET least == CHOOSE s \in S : \A t \in S \ {s} : StrLess(s, t)
         IN  <<least>> \o SortedStrings(S \ {least})

EndsWith(s, p) == Len(p) <= Len(s) /\ StartsWithAt(s, Len(s) - Len(p) + 1, p)

DotYaml == <<".", "y", "a", "m", "l">>
DotYml == <<".", "y", "m", "l">>

\* first index >= i of s that holds no \w character
RECURSIVE WordEnd(_, _)
WordEnd(s, i) == IF i <= Len(s) /\ IsWord(s[i]) THEN WordEnd(s, i + 1) ELSE i

\* lines 11-20: re.match(r'(\w+)(\.v(\d+_\d+_\d+))?\.yaml$', yaml_filename).
\* \w+ has to stop at the first character that is no \w, as a '.' must follow it.
extract_schema_info(yaml_filename) ==
    LET w == WordEnd(yaml_filename, 1)
        name == SubSeq(yaml_filename, 1, w - 1)
        rest == SubSeq(yaml_filename, w, Len(yaml_filename))
        none == [match |-> FALSE, name |-> <<>>, version |-> <<>>]
    IN  IF w = 1 THEN none
        ELSE IF rest = DotYaml THEN [match |-> TRUE, name |-> name, version |-> <<>>]
        ELSE IF StartsWith(rest, <<".", "v">>)
        THEN LET a == DigitsEnd(rest, 3)
                 b == DigitsEnd(rest, a + 1)
                 c == DigitsEnd(rest, b + 1)
             IN  IF /\ a > 3 /\ a <= Len(rest) /\ rest[a] = "_"
                    /\ b > a + 1 /\ b <= Len(rest) /\ rest[b] = "_"
                    /\ c > b + 1
                    /\ SubSeq(rest, c, Len(rest)) = DotYaml
                 THEN [match |-> TRUE, name |-> name, version |-> SubSeq(rest, 3, c - 1)]
                 ELSE none
        ELSE none

\* line 37: re.search(r'(\w+)_v(\d+_\d+_\d+)_', key) on a schema key made of
\* \w characters: the greedy \w+ makes the last version token the one that is captured
VersionTokenStarts(key) ==
    { i \in 2..Len(key) : VersionMatchEnd(key, i) # 0 }

CapturedVersion(key) ==
    LET last == CHOOSE i \in VersionTokenStarts(key) :
                    \A j \in VersionTokenStarts(key) : j <= i
    IN  SubSeq(key, last + 2, VersionMatchEnd(key, last) - 2)

\* lines 23-44; body.ok is FALSE when open or yaml.safe_load raises, and then the
\* except clause returns the versions collected so far: none
extract_versioned_namespaces(body) ==
    IF ~body.ok THEN <<>>
    ELSE IF ~body.has_components THEN <<>>
    ELSE SortedStrings({ CapturedVersion(body.schemas[i]) :
                           i \in { j \in 1..Len(body.schemas) :
                                     VersionTokenStarts(body.schemas[j]) # {} } })

RedfishExtensions == <<"R", "e", "d", "f", "i", "s", "h", "E", "x", "t", "e", "n", "s", "i", "o", "n", "s">>

Namespace(name, version, alias) == [name |-> name, version |-> version, alias |-> alias]

\* lines 80-88; an absent version or alias is the empty string
NamespacesOf(name, body) ==
    IF name = RedfishExtensions
    THEN << Namespace(RedfishExtensions, <<"v", "1", "_", "0", "_", "0">>,
                      <<"R", "e", "d", "f", "i", "s", "h">>) >>
    ELSE LET versioned == extract_versioned_namespaces(body)
         IN  << Namespace(name, <<>>, <<>>) >>
             \o [i \in 1..Len(versioned) |-> Namespace(name, versioned[i], <<>>)]

\* line 74
XmlFilename(name) == name \o <<"_", "v", "1", ".", "x", "m", "l">>

\* line 64: sorted(os.listdir(dmtf_dir))
Listing == SortedStrings(DOMAIN dmtf_dir)

\* lines 65-77: the file is passed over
Skipped(yaml_filename, index) ==
    \/ ~(EndsWith(yaml_filename, DotYaml) \/ EndsWith(yaml_filename, DotYml))
    \/ ~extract_schema_info(yaml_filename).match
    \/ /\ Has(index, XmlFilename(extract_schema_info(yaml_filename).name))
       /\ extract_schema_info(yaml_filename).version = <<>>

MaxDirFiles == 3

FileNamePool == { <<"X", ".", "y", "a", "m", "l">>,
                  <<"X", ".", "v", "1", "_", "0", "_", "0", ".", "y", "a", "m", "l">>,
                  <<"Y", ".", "y", "m", "l">>,
                  <<"X", "-", "Y", ".", "y", "a", "m", "l">>,
                  <<"R", "e", "d", "f", "i", "s", "h", "E", "x", "t", "e", "n", "s", "i", "o", "n", "s", ".", "y", "a", "m", "l">>,
                  <<"n", "o", "t", "e", "s", ".", "t", "x", "t">> }

Body(ok, hc, schemas) == [ok |-> ok, has_components |-> hc, schemas |-> schemas]

BodyPool == {
    Body(FALSE, FALSE, <<>>),
    Body(TRUE, FALSE, <<>>),
    Body(TRUE, TRUE, << N_X_Y, N_X_v_Y >>),
    Body(TRUE, TRUE, << <<"X", "_", "v", "2", "_", "0", "_", "0", "_", "Y">>, N_X_vv_Y, N_X_v >>) }

InitDisc ==
    /\ pc = "scan"
    /\ dmtf_dir \in UNION { [S -> BodyPool] :
                              S \in { T \in SUBSET FileNamePool : Cardinality(T) <= MaxDirFiles } }
    /\ dir_i = 1
    /\ discovered = <<>>
    /\ schema_name = <<>> /\ clean_name = <<>>
    /\ base_file = Idle /\ fragments = Idle /\ yaml_files = Idle /\ main_spec = Idle
    /\ file_i = 0 /\ schema_i = 0 /\ merged_file = Idle /\ runs = 0

\* lines 65-77: continue
SkipFile ==
    /\ pc = "scan" /\ dir_i <= Len(Listing)
    /\ Skipped(Listing[dir_i], discovered)
    /\ dir_i' = dir_i + 1
    /\ UNCHANGED <<pc, dmtf_dir, discovered, normVars, mergeVars>>

\* lines 79-95: the file is recorded, whether or not its body could be parsed
RecordFile ==
    /\ pc = "scan" /\ dir_i <= Len(Listing)
    /\ ~Skipped(Listing[dir_i], discovered)
    /\ LET yaml_filename == Listing[dir_i]
           name == extract_schema_info(yaml_filename).name
       IN  discovered' = Put(discovered, XmlFilename(name),
                             [namespaces |-> NamespacesOf(name, dmtf_dir[yaml_filename]),
                              source_file |-> yaml_filename])
    /\ dir_i' = dir_i + 1
    /\ UNCHANGED <<pc, dmtf_dir, normVars, mergeVars>>

\* lines 97-98
ReturnDiscovered ==
    /\ pc = "scan" /\ dir_i > Len(Listing)
    /\ pc' = "discovered"
    /\ UNCHANGED <<dmtf_dir, dir_i, discovered, normVars, mergeVars>>

NextDisc == SkipFile \/ RecordFile \/ ReturnDiscovered

SpecDisc == InitDisc /\ [][NextDisc]_vars

\* C8: a file whose body fails to parse contributes no entry to the DiscoveryIndex
\* that discover_schemas returns
C8_UnparsableFileContributesNothing ==
    pc = "discovered" =>
        \A yaml_filename \in DOMAIN dmtf_dir :
            ~dmtf_dir[yaml_filename].ok
                => \A i \in 1..Len(discovered) : discovered[i][2].source_file # yaml_filename

====
